---- MODULE Spec2Model ----
(***************************************************************************)
(* Block (src/generators/dom/Block.ts): the block assembly stage of the    *)
(* DOM generator.  A Block collects code fragments in eight accumulators   *)
(* and render() synthesises the lifecycle object from them.  Generated     *)
(* text is modelled as sequences of tokens (strings); the rendered         *)
(* intro/outro functions are executed by an interpreter of the emitted     *)
(* statements.                                                             *)
(***************************************************************************)
EXTENDS Integers, Sequences, FiniteSets, TLC

VARIABLES
    block,      \* the Block instance (all fields of the class)
    pc,         \* "build" | "rendered" | "live"
    steps,      \* number of operations applied to the block so far
    last,       \* outcome of the last operation on the block
    unionArgs,  \* history: every name ever passed to addDependencies
    artifact,   \* what render() returned
    inst,       \* one instance created by calling the rendered function
    calls,      \* history of intro/outro invocations on that instance
    elements,   \* history: the names passed to addElement without a parent, in order
    kid         \* the Block returned by child(), if any

vars == <<block, pc, steps, last, unionArgs, artifact, inst, calls, elements, kid>>

(***************************************************************************)
(* Bounds                                                                  *)
(***************************************************************************)
MaxOps == 3         \* operations on a Block before render
MaxOutros == 2      \* largest outro count N
MaxCalls == 3       \* intro/outro invocations on one instance
MaxWrites == 4      \* writes in the teardown scenario

(***************************************************************************)
(* JavaScript values                                                       *)
(***************************************************************************)
Null == "<null>"
Undefined == "<undefined>"

Falsy(v) == v = Null \/ v = Undefined \/ v = ""

Names == {"a", "b"}
Inits == {Undefined, "0", "1"}
Parents == {Null, "p"}
Roles == {"outros", "target"}
PhaseNames ==
    {"create", "mount", "intro", "update", "outro", "unmount", "detachRaw", "destroy"}

(***************************************************************************)
(* CodeBuilder: an ordered buffer of fragments                             *)
(***************************************************************************)
NewCodeBuilder == <<>>

addLine(cb, line) == Append(cb, line)

addBlock(cb, blk) == Append(cb, blk)

addBlockAtStart(cb, blk) == <<blk>> \o cb

addBuilderAtStart(cb, other) == other \o cb

isEmpty(cb) == Len(cb) = 0

(***************************************************************************)
(* generator.helper and generator.getUniqueNameMaker                       *)
(***************************************************************************)
helper(name) == name

Candidate(name, i) == IF i = 0 THEN name ELSE name \o "_" \o ToString(i)

getUniqueName(used, name) ==
    LET i == CHOOSE k \in 0..Cardinality(used) :
                 /\ Candidate(name, k) \notin used
                 /\ \A j \in 0..(k - 1) : Candidate(name, j) \in used
    IN  Candidate(name, i)

(***************************************************************************)
(* The insertion-ordered Map of declared variables: a sequence of          *)
(* <<name, init>> pairs; set() on an existing key keeps its position.      *)
(***************************************************************************)
MapHas(m, k) == \E i \in 1..Len(m) : m[i][1] = k

MapGet(m, k) ==
    IF MapHas(m, k) THEN m[CHOOSE i \in 1..Len(m) : m[i][1] = k][2] ELSE Undefined

MapSet(m, k, v) ==
    IF MapHas(m, k)
    THEN [i \in 1..Len(m) |-> IF m[i][1] = k THEN <<k, v>> ELSE m[i]]
    ELSE Append(m, <<k, v>>)

MapKeys(m) == [i \in 1..Len(m) |-> m[i][1]]

(***************************************************************************)
(* Block: constructor                                                      *)
(***************************************************************************)
NewBuilders ==
    [create |-> NewCodeBuilder, mount |-> NewCodeBuilder, intro |-> NewCodeBuilder,
     update |-> NewCodeBuilder, outro |-> NewCodeBuilder, unmount |-> NewCodeBuilder,
     detachRaw |-> NewCodeBuilder, destroy |-> NewCodeBuilder]

NewBlock(options) ==
    LET used0 == {options.params[i] : i \in 1..Len(options.params)}
        component == getUniqueName(used0, "component")
        used1 == used0 \cup {component}
        target == getUniqueName(used1, "target")
    IN  [name |-> options.name,
         key |-> options.key,
         first |-> Null,
         dependencies |-> {},
         params |-> options.params,
         builders |-> NewBuilders,
         hasIntroMethod |-> FALSE,
         hasOutroMethod |-> FALSE,
         outros |-> 0,
         aliases |-> <<>>,
         variables |-> <<>>,
         usedNames |-> used1 \cup {target},
         component |-> component,
         target |-> target,
         hasUpdateMethod |-> FALSE,
         autofocus |-> Undefined]

(***************************************************************************)
(* Block.addDependencies: forEach over the argument array                  *)
(***************************************************************************)
RECURSIVE addDependenciesFrom(_, _, _)
addDependenciesFrom(deps, arr, i) ==
    IF i > Len(arr) THEN deps
    ELSE addDependenciesFrom(deps \cup {arr[i]}, arr, i + 1)

\* the argument replaces the set instead of being added to it
addDependenciesReplacing(b, dependencies) ==
    [b EXCEPT !.dependencies = addDependenciesFrom({}, dependencies, 1)]

addDependencies(b, dependencies) ==
    [b EXCEPT !.dependencies = addDependenciesFrom(@, dependencies, 1)]

(***************************************************************************)
(* Block.mount and Block.addElement                                        *)
(***************************************************************************)
\* the insert line is written to mount whatever the parent
mountIgnoringParent(b, name, parentNode) ==
    [b EXCEPT !.builders.mount =
        addLine(@, <<helper("insertNode"), name, b.target, "anchor">>)]

mount(b, name, parentNode) ==
    IF ~Falsy(parentNode)
    THEN [b EXCEPT !.builders.create =
              addLine(@, <<helper("appendNode"), name, parentNode>>)]
    ELSE [b EXCEPT !.builders.mount =
              addLine(@, <<helper("insertNode"), name, b.target, "anchor">>)]

\* the named declaration is emitted only when an identifier is asked for
addElementByFlagOnly(b, name, renderStatement, parentNode, needsIdentifier) ==
    LET isToplevel == Falsy(parentNode)
        b1 == IF needsIdentifier
              THEN mount([b EXCEPT !.builders.create =
                              addLine(@, <<"var", name, "=", renderStatement>>)],
                         name, parentNode)
              ELSE [b EXCEPT !.builders.create =
                        addLine(@, <<helper("appendNode"), renderStatement, parentNode>>)]
    IN  IF isToplevel
        THEN [b1 EXCEPT !.builders.unmount = addLine(@, <<helper("detachNode"), name>>)]
        ELSE b1

addElement(b, name, renderStatement, parentNode, needsIdentifier) ==
    LET isToplevel == Falsy(parentNode)
        b1 == IF needsIdentifier \/ isToplevel
              THEN mount([b EXCEPT !.builders.create =
                              addLine(@, <<"var", name, "=", renderStatement>>)],
                         name, parentNode)
              ELSE [b EXCEPT !.builders.create =
                        addLine(@, <<helper("appendNode"), renderStatement, parentNode>>)]
    IN  IF isToplevel
        THEN [b1 EXCEPT !.builders.unmount = addLine(@, <<helper("detachNode"), name>>)]
        ELSE b1

(***************************************************************************)
(* Block.addVariable: returns the block and the error thrown, if any       *)
(***************************************************************************)
NoError == <<>>

\* a variable registered without initializer accepts any later initializer
addVariableConflictLoose(b, name, init) ==
    /\ MapHas(b.variables, name)
    /\ MapGet(b.variables, name) # Undefined
    /\ MapGet(b.variables, name) # init

addVariableConflict(b, name, init) ==
    MapHas(b.variables, name) /\ MapGet(b.variables, name) # init

\* the new initializer is stored before the conflict is reported
addVariableOverwriting(b, name, init) ==
    [b |-> [b EXCEPT !.variables = MapSet(@, name, init)],
     error |-> IF addVariableConflict(b, name, init)
               THEN <<"Variable", name, "already initialised with a different value">>
               ELSE NoError]

addVariable(b, name, init) ==
    IF addVariableConflict(b, name, init)
    THEN [b |-> b,
          error |-> <<"Variable", name, "already initialised with a different value">>]
    ELSE [b |-> [b EXCEPT !.variables = MapSet(@, name, init)], error |-> NoError]

(***************************************************************************)
(* Block.alias: returns the block and the name                             *)
(***************************************************************************)
\* every call allocates a fresh name, registered or not
aliasUnmemoized(b, name) ==
    LET u == getUniqueName(b.usedNames, name)
        b1 == [b EXCEPT !.aliases = MapSet(@, name, u), !.usedNames = @ \cup {u}]
    IN  [b |-> b1, name |-> u]

alias(b, name) ==
    LET b1 == IF ~MapHas(b.aliases, name)
              THEN LET u == getUniqueName(b.usedNames, name)
                   IN  [b EXCEPT !.aliases = MapSet(@, name, u),
                                 !.usedNames = @ \cup {u}]
              ELSE b
    IN  [b |-> b1, name |-> MapGet(b1.aliases, name)]

(***************************************************************************)
(* Block.child: new Block(Object.assign({}, this, options, {parent: this}))*)
(* The constructor reads name, key and params of the merged options and    *)
(* creates every accumulator, set and map anew.  The result carries the    *)
(* new Block and the fields whose object it shares with the parent.        *)
(***************************************************************************)
Assign(b, options) ==
    [f \in DOMAIN b \cup DOMAIN options |->
        IF f \in DOMAIN options THEN options[f] ELSE b[f]]

\* the constructor takes the dependency set found in its options
childSharingDependencies(b, options) ==
    LET merged == Assign(b, options)
    IN  [b |-> [NewBlock(merged) EXCEPT !.dependencies = merged.dependencies],
         shares |-> {"dependencies"}]

child(b, options) ==
    [b |-> NewBlock(Assign(b, options)), shares |-> {}]

(***************************************************************************)
(* Block.render                                                            *)
(***************************************************************************)
RECURSIVE JoinFrom(_, _, _)
JoinFrom(entries, sep, i) ==
    IF i > Len(entries) THEN <<>>
    ELSE (IF i > 1 THEN <<sep>> ELSE <<>>) \o entries[i] \o JoinFrom(entries, sep, i + 1)

\* the initializer of an entry is not emitted
VariableEntryDropsInit(key, init) == <<key>>

VariableEntry(key, init) == IF init # Undefined THEN <<key, "=", init>> ELSE <<key>>

VariablesStatement(variables) ==
    <<"var">> \o JoinFrom([i \in 1..Len(variables) |->
                               VariableEntry(variables[i][1], variables[i][2])], ",", 1)

Property(name, kind, params, body) ==
    [name |-> name, kind |-> kind, params |-> params, body |-> body]

NoopProperty(name) == Property(name, "noop", <<>>, <<>>)

\* lines 199-211: the guard variables of the transitions
RenderGuards(b) ==
    LET hasIntros == ~isEmpty(b.builders.intro)
        hasOutros == ~isEmpty(b.builders.outro)
        introing == IF hasIntros THEN getUniqueName(b.usedNames, "introing") ELSE Undefined
        bi == IF hasIntros THEN [b EXCEPT !.usedNames = @ \cup {introing}] ELSE b
        ri == IF hasIntros THEN addVariable(bi, introing, Undefined)
              ELSE [b |-> bi, error |-> NoError]
        outroing == IF hasOutros /\ ri.error = NoError
                    THEN getUniqueName(ri.b.usedNames, "outroing") ELSE Undefined
        bo == IF outroing # Undefined THEN [ri.b EXCEPT !.usedNames = @ \cup {outroing}]
              ELSE ri.b
        ro == IF outroing # Undefined THEN addVariable(bo, outroing, Undefined)
              ELSE [b |-> bo, error |-> ri.error]
    IN  [b |-> ro.b, error |-> ro.error, hasIntros |-> hasIntros, hasOutros |-> hasOutros,
         introing |-> introing, outroing |-> outroing]

\* detachRaw is added at the end of unmount instead of at its start
RenderPhasesDetachRawLast(b) ==
    LET b1 == IF Len(b.variables) > 0
              THEN [b EXCEPT !.builders.create =
                        addBlockAtStart(@, VariablesStatement(b.variables))]
              ELSE b
        b2 == IF ~Falsy(b1.autofocus)
              THEN [b1 EXCEPT !.builders.create = addLine(@, <<b1.autofocus, ".focus()">>)]
              ELSE b1
    IN  [b2 EXCEPT !.builders.unmount = @ \o b2.builders.detachRaw]

\* detachRaw is emptied once its fragments are moved in front of unmount
RenderPhasesMovingDetachRaw(b) ==
    LET b1 == IF Len(b.variables) > 0
              THEN [b EXCEPT !.builders.create =
                        addBlockAtStart(@, VariablesStatement(b.variables))]
              ELSE b
        b2 == IF ~Falsy(b1.autofocus)
              THEN [b1 EXCEPT !.builders.create = addLine(@, <<b1.autofocus, ".focus()">>)]
              ELSE b1
    IN  [b2 EXCEPT !.builders.unmount = addBuilderAtStart(@, b2.builders.detachRaw),
                   !.builders.detachRaw = NewCodeBuilder]

\* lines 213-229: declarations, autofocus, detachRaw before unmount
RenderPhases(b) ==
    LET b1 == IF Len(b.variables) > 0
              THEN [b EXCEPT !.builders.create =
                        addBlockAtStart(@, VariablesStatement(b.variables))]
              ELSE b
        b2 == IF ~Falsy(b1.autofocus)
              THEN [b1 EXCEPT !.builders.create = addLine(@, <<b1.autofocus, ".focus()">>)]
              ELSE b1
    IN  [b2 EXCEPT !.builders.unmount = addBuilderAtStart(@, b2.builders.detachRaw)]

\* intro emitted without its re-entrancy guard
IntroPropertyUnguarded(b, g) ==
    IF g.hasIntros
    THEN Property("intro", "function", <<b.target, "anchor">>,
             <<<<g.introing, "=", "true">>>>
             \o (IF g.hasOutros THEN <<<<g.outroing, "=", "false">>>> ELSE <<>>)
             \o b.builders.intro
             \o <<<<"this.mount", b.target, "anchor">>>>)
    ELSE Property("intro", "function", <<b.target, "anchor">>,
             <<<<"this.mount", b.target, "anchor">>>>)

\* intro emitted without clearing the outroing flag
IntroPropertyKeepsOutroing(b, g) ==
    IF g.hasIntros
    THEN Property("intro", "function", <<b.target, "anchor">>,
             <<<<"if", g.introing, "return">>, <<g.introing, "=", "true">>>>
             \o b.builders.intro
             \o <<<<"this.mount", b.target, "anchor">>>>)
    ELSE Property("intro", "function", <<b.target, "anchor">>,
             <<<<"this.mount", b.target, "anchor">>>>)

\* lines 265-285
IntroProperty(b, g) ==
    IF g.hasIntros
    THEN Property("intro", "function", <<b.target, "anchor">>,
             <<<<"if", g.introing, "return">>, <<g.introing, "=", "true">>>>
             \o (IF g.hasOutros THEN <<<<g.outroing, "=", "false">>>> ELSE <<>>)
             \o b.builders.intro
             \o <<<<"this.mount", b.target, "anchor">>>>)
    ELSE Property("intro", "function", <<b.target, "anchor">>,
             <<<<"this.mount", b.target, "anchor">>>>)

\* line 295
OutroCounterInit(b) == b.outros

\* outro emitted without clearing the introing flag
OutroPropertyKeepsIntroing(b, g, cb, counter) ==
    IF g.hasOutros
    THEN Property("outro", "function", <<cb>>,
             <<<<"if", g.outroing, "return">>, <<g.outroing, "=", "true">>>>
             \o <<<<"var", counter, "=", ToString(OutroCounterInit(b))>>>>
             \o b.builders.outro)
    ELSE Property("outro", "function", <<"outrocallback">>, <<<<"outrocallback", "()">>>>)

\* outro emitted without its re-entrancy guard
OutroPropertyUnguarded(b, g, cb, counter) ==
    IF g.hasOutros
    THEN Property("outro", "function", <<cb>>,
             <<<<g.outroing, "=", "true">>>>
             \o (IF g.hasIntros THEN <<<<g.introing, "=", "false">>>> ELSE <<>>)
             \o <<<<"var", counter, "=", ToString(OutroCounterInit(b))>>>>
             \o b.builders.outro)
    ELSE Property("outro", "function", <<"outrocallback">>, <<<<"outrocallback", "()">>>>)

\* lines 287-307; cb and counter are the aliases 'outrocallback' and 'outros'
OutroProperty(b, g, cb, counter) ==
    IF g.hasOutros
    THEN Property("outro", "function", <<cb>>,
             <<<<"if", g.outroing, "return">>, <<g.outroing, "=", "true">>>>
             \o (IF g.hasIntros THEN <<<<g.introing, "=", "false">>>> ELSE <<>>)
             \o <<<<"var", counter, "=", ToString(OutroCounterInit(b))>>>>
             \o b.builders.outro)
    ELSE Property("outro", "function", <<"outrocallback">>, <<<<"outrocallback", "()">>>>)

\* lines 233-241
KeyProperty(b, localKey) ==
    IF ~Falsy(b.key) THEN <<Property("key", "value", <<>>, <<<<localKey>>>>)>> ELSE <<>>

FirstProperty(b) ==
    IF ~Falsy(b.first) THEN <<Property("first", "value", <<>>, <<<<b.first>>>>)>> ELSE <<>>

\* lines 243-251
MountProperty(b) ==
    IF isEmpty(b.builders.mount) THEN <<NoopProperty("mount")>>
    ELSE <<Property("mount", "function", <<b.target, "anchor">>, b.builders.mount)>>

\* update is also emitted when the flag is false but fragments exist
UpdatePropertyWhenFragments(b) ==
    IF isEmpty(b.builders.update)
    THEN IF b.hasUpdateMethod THEN <<NoopProperty("update")>> ELSE <<>>
    ELSE <<Property("update", "function", <<"changed">> \o b.params, b.builders.update)>>

\* lines 253-263
UpdateProperty(b) ==
    IF b.hasUpdateMethod
    THEN IF isEmpty(b.builders.update) THEN <<NoopProperty("update")>>
         ELSE <<Property("update", "function", <<"changed">> \o b.params,
                         b.builders.update)>>
    ELSE <<>>

\* the emptiness of unmount is judged as it was before detachRaw was prepended
UnmountPropertyBeforePrepend(b) ==
    IF Len(b.builders.unmount) = Len(b.builders.detachRaw) THEN <<NoopProperty("unmount")>>
    ELSE <<Property("unmount", "function", <<>>, b.builders.unmount)>>

\* lines 309-317
UnmountProperty(b) ==
    IF isEmpty(b.builders.unmount) THEN <<NoopProperty("unmount")>>
    ELSE <<Property("unmount", "function", <<>>, b.builders.unmount)>>

\* lines 319-327
DestroyProperty(b) ==
    IF isEmpty(b.builders.destroy) THEN <<NoopProperty("destroy")>>
    ELSE <<Property("destroy", "function", <<>>, b.builders.destroy)>>

\* lines 231-327: the properties, in emission order
RenderProperties(b, g) ==
    LET localKey == IF ~Falsy(b.key) THEN getUniqueName(b.usedNames, "key") ELSE Undefined
        bk == IF ~Falsy(b.key) THEN [b EXCEPT !.usedNames = @ \cup {localKey}] ELSE b
        pIntro == IF b.hasIntroMethod THEN <<IntroProperty(b, g)>> ELSE <<>>
        needAliases == b.hasOutroMethod /\ g.hasOutros
        a1 == IF needAliases THEN alias(bk, "outrocallback") ELSE [b |-> bk, name |-> Undefined]
        a2 == IF needAliases THEN alias(a1.b, "outros") ELSE [b |-> a1.b, name |-> Undefined]
        pOutro == IF b.hasOutroMethod THEN <<OutroProperty(b, g, a1.name, a2.name)>> ELSE <<>>
    IN  [b |-> a2.b,
         localKey |-> localKey,
         properties |-> KeyProperty(b, localKey) \o FirstProperty(b) \o MountProperty(b)
                        \o UpdateProperty(b) \o pIntro \o pOutro
                        \o UnmountProperty(b) \o DestroyProperty(b)]

NoArtifact == <<>>

render(b) ==
    LET g == RenderGuards(b)
    IN  IF g.error # NoError
        THEN [b |-> g.b, error |-> g.error, artifact |-> NoArtifact]
        ELSE LET bp == RenderPhases(g.b)
                 r == RenderProperties(bp, g)
             IN  [b |-> r.b,
                  error |-> NoError,
                  artifact |-> <<[name |-> bp.name,
                                  params |-> bp.params \o <<bp.component>>
                                             \o (IF ~Falsy(bp.key) THEN <<r.localKey>>
                                                 ELSE <<>>),
                                  create |-> bp.builders.create,
                                  properties |-> r.properties]>>]

(***************************************************************************)
(* The rendered function at run time.  Calling it runs the create phase    *)
(* (the declared variables start undefined, i.e. falsy) and returns the    *)
(* object; intro and outro execute the emitted statements in order.        *)
(***************************************************************************)
DeclaredBare(st) ==
    IF Len(st) > 0 /\ st[1] = "var"
    THEN {st[i] : i \in {j \in 2..Len(st) :
                            /\ st[j - 1] \in {"var", ","}
                            /\ (j = Len(st) \/ st[j + 1] # "=")}}
    ELSE {}

CreateEnv(a) ==
    [v \in UNION {DeclaredBare(a.create[i]) : i \in 1..Len(a.create)} |-> FALSE]

ParseNat(s) == CHOOSE n \in 0..(MaxOutros + 2) : ToString(n) = s

Frame(env) ==
    [env |-> env, returned |-> FALSE, frags |-> 0, mounted |-> FALSE,
     counter |-> -1, cbs |-> 0]

ExecStmt(f, st) ==
    IF f.returned THEN f
    ELSE IF st[1] = "if"
         THEN IF f.env[st[2]] THEN [f EXCEPT !.returned = TRUE] ELSE f
    ELSE IF Len(st) = 3 /\ st[2] = "="
         THEN [f EXCEPT !.env[st[1]] = (st[3] = "true")]
    ELSE IF st[1] = "var"
         THEN [f EXCEPT !.counter = ParseNat(st[4])]
    ELSE IF st[1] = "this.mount"
         THEN [f EXCEPT !.mounted = TRUE]
    ELSE IF Len(st) = 2 /\ st[2] = "()"
         THEN [f EXCEPT !.cbs = @ + 1]
    ELSE [f EXCEPT !.frags = @ + 1]

RECURSIVE Exec(_, _, _)
Exec(body, f, i) ==
    IF i > Len(body) THEN f ELSE Exec(body, ExecStmt(f, body[i]), i + 1)

HasProperty(a, name) == \E i \in 1..Len(a.properties) : a.properties[i].name = name

GetProperty(a, name) ==
    a.properties[CHOOSE i \in 1..Len(a.properties) : a.properties[i].name = name]

CallRecord(op, before, f, participants) ==
    [op |-> op, before |-> before, atGuard |-> f.returned, frags |-> f.frags, mounted |-> f.mounted,
     counter |-> f.counter, cbs |-> f.cbs,
     pending |-> IF f.frags > 0 THEN 1..participants ELSE {}]

\* a participant started by the outro fragments finishes:
\*   if ( --outros === 0 ) outrocallback();
participantDone(c, p) ==
    [c EXCEPT !.pending = @ \ {p},
              !.counter = @ - 1,
              !.cbs = IF c.counter - 1 = 0 THEN @ + 1 ELSE @]

(***************************************************************************)
(* State after construction                                                *)
(***************************************************************************)
Options == [name : {"create_main_fragment"}, key : {Undefined, "key"},
            params : {<<"state">>}]

Start(b) ==
    /\ block = b
    /\ pc = "build"
    /\ steps = 0
    /\ last = [op |-> "new", args |-> <<>>, prev |-> b, error |-> NoError]
    /\ unionArgs = {}
    /\ artifact = NoArtifact
    /\ inst = [env |-> <<>>]
    /\ calls = <<>>
    /\ elements = <<>>
    /\ kid = <<>>

Init == \E o \in Options : Start(NewBlock(o))

(***************************************************************************)
(* Operations of the compiler on a Block                                   *)
(***************************************************************************)
Operation(op, args, b, error) ==
    /\ block' = b
    /\ last' = [op |-> op, args |-> args, prev |-> block, error |-> error]
    /\ steps' = steps + 1
    /\ UNCHANGED <<pc, artifact, inst, calls, kid>>

Arrays == {<<>>} \cup {<<x>> : x \in Names} \cup {<<x, y>> : x \in Names, y \in Names}

RECURSIVE Elements(_, _)
Elements(arr, i) == IF i > Len(arr) THEN {} ELSE {arr[i]} \cup Elements(arr, i + 1)

AddDependencies(bound) ==
    /\ pc = "build" /\ steps < bound
    /\ \E arr \in Arrays :
          /\ Operation("addDependencies", arr, addDependencies(block, arr), NoError)
          /\ unionArgs' = unionArgs \cup Elements(arr, 1)
    /\ UNCHANGED elements

Bool(x) == IF x THEN "true" ELSE "false"

AddElement(bound) ==
    /\ pc = "build" /\ steps < bound
    /\ \E name \in Names, parentNode \in Parents, needsIdentifier \in BOOLEAN :
          /\ Operation("addElement", <<name, "el", parentNode, Bool(needsIdentifier)>>,
                       addElement(block, name, "el", parentNode, needsIdentifier), NoError)
          /\ elements' = IF Falsy(parentNode) THEN Append(elements, name) ELSE elements
    /\ UNCHANGED unionArgs

AddVariable(bound) ==
    /\ pc = "build" /\ steps < bound
    /\ \E name \in Names, init \in Inits :
          LET r == addVariable(block, name, init)
          IN  Operation("addVariable", <<name, init>>, r.b, r.error)
    /\ UNCHANGED <<unionArgs, elements>>

Alias(bound) ==
    /\ pc = "build" /\ steps < bound
    /\ \E role \in Roles :
          LET r == alias(block, role)
          IN  Operation("alias", <<role, r.name>>, r.b, NoError)
    /\ UNCHANGED <<unionArgs, elements>>

Mount(bound) ==
    /\ pc = "build" /\ steps < bound
    /\ \E name \in Names, parentNode \in Parents :
          Operation("mount", <<name, parentNode>>, mount(block, name, parentNode), NoError)
    /\ UNCHANGED <<unionArgs, elements>>

\* the compiler writes a fragment straight into one accumulator
Fragment(n) == <<"raw", ToString(n)>>

write(b, phase, frag) == [b EXCEPT !.builders[phase] = addBlock(@, frag)]

Write(phases, bound) ==
    /\ pc = "build" /\ steps < bound
    /\ \E phase \in phases :
          Operation("write", <<phase>>, write(block, phase, Fragment(steps)), NoError)
    /\ UNCHANGED <<unionArgs, elements>>

\* the compiler sets the fields it decides
Fields == {"hasUpdateMethod", "hasIntroMethod", "hasOutroMethod", "outros", "first",
           "autofocus"}

setField(b, field) ==
    CASE field = "hasUpdateMethod" -> [b EXCEPT !.hasUpdateMethod = TRUE]
      [] field = "hasIntroMethod" -> [b EXCEPT !.hasIntroMethod = TRUE]
      [] field = "hasOutroMethod" -> [b EXCEPT !.hasOutroMethod = TRUE]
      [] field = "outros" -> [b EXCEPT !.outros = @ + 1]
      [] field = "first" -> [b EXCEPT !.first = "first"]
      [] field = "autofocus" -> [b EXCEPT !.autofocus = "input"]

SetField(bound) ==
    /\ pc = "build" /\ steps < bound
    /\ \E field \in Fields :
          /\ field = "outros" => block.outros < MaxOutros
          /\ Operation("set", <<field>>, setField(block, field), NoError)
    /\ UNCHANGED <<unionArgs, elements>>

Render ==
    /\ pc = "build"
    /\ LET r == render(block)
       IN  /\ block' = r.b
           /\ artifact' = r.artifact
           /\ last' = [op |-> "render", args |-> <<>>, prev |-> block, error |-> r.error]
           /\ pc' = IF r.error = NoError THEN "rendered" ELSE "failed"
    /\ UNCHANGED <<steps, unionArgs, inst, calls, elements, kid>>

Next ==
    \/ AddDependencies(MaxOps)
    \/ AddElement(MaxOps)
    \/ AddVariable(MaxOps)
    \/ Alias(MaxOps)
    \/ Mount(MaxOps)
    \/ Write(PhaseNames, MaxOps)
    \/ SetField(MaxOps)
    \/ Render

Spec == Init /\ [][Next]_vars

(***************************************************************************)
(* Teardown scenario: writes to detachRaw and unmount, elements, render    *)
(***************************************************************************)
NextTeardown ==
    \/ Write({"detachRaw", "unmount"}, MaxWrites)
    \/ AddElement(MaxWrites)
    \/ Render

SpecTeardown == Init /\ [][NextTeardown]_vars

(***************************************************************************)
(* Render scenario: render() applied to Blocks in every configuration of   *)
(* flags and accumulator contents the compiler can leave them in           *)
(***************************************************************************)
RECURSIVE writeAll(_, _, _)
writeAll(b, phase, n) ==
    IF n = 0 THEN b ELSE write(writeAll(b, phase, n - 1), phase, Fragment(n))

RECURSIVE setAll(_, _)
setAll(b, fields) ==
    IF fields = {} THEN b
    ELSE LET f == CHOOSE f \in fields : TRUE IN setField(setAll(b, fields \ {f}), f)

RECURSIVE setOutros(_, _)
setOutros(b, n) == IF n = 0 THEN b ELSE setField(setOutros(b, n - 1), "outros")

RECURSIVE writeEach(_, _)
writeEach(b, phases) ==
    IF phases = {} THEN b
    ELSE LET p == CHOOSE p \in phases : TRUE IN writeAll(writeEach(b, phases \ {p}), p, 1)

InitRender ==
    \E o \in Options, fields \in SUBSET (Fields \ {"outros"}),
       phases \in SUBSET (PhaseNames \ {"unmount", "detachRaw"}),
       nu \in 0..2, nd \in 0..2, declared \in BOOLEAN :
        LET b1 == setOutros(setAll(NewBlock(o), fields), IF "outro" \in phases THEN 1 ELSE 0)
            b2 == writeAll(writeAll(writeEach(b1, phases), "unmount", nu), "detachRaw", nd)
            b3 == IF declared THEN addVariable(b2, "a", "1").b ELSE b2
        IN  Start(b3)

NextRender == Render

SpecRender == InitRender /\ [][NextRender]_vars

(***************************************************************************)
(* Transition scenario: a Block with any combination of intro/outro        *)
(* methods and fragments and outro count N is rendered, the rendered       *)
(* function is called once, and intro/outro are invoked on the object      *)
(***************************************************************************)
InitRun ==
    \E fields \in SUBSET {"hasIntroMethod", "hasOutroMethod"},
       phases \in SUBSET {"intro", "outro"}, n \in 0..MaxOutros :
        Start(writeEach(setOutros(setAll(NewBlock([name |-> "create_if_block",
                                                   key |-> Undefined,
                                                   params |-> <<"state">>]),
                                         fields), n), phases))

Instantiate ==
    /\ pc = "rendered"
    /\ pc' = "live"
    /\ inst' = [env |-> CreateEnv(artifact[1])]
    /\ UNCHANGED <<block, steps, last, unionArgs, artifact, calls, elements, kid>>

Call(op) ==
    /\ pc = "live"
    /\ Len(calls) < MaxCalls
    /\ HasProperty(artifact[1], op)
    /\ LET f == Exec(GetProperty(artifact[1], op).body, Frame(inst.env), 1)
       IN  /\ inst' = [inst EXCEPT !.env = f.env]
           /\ calls' = Append(calls, CallRecord(op, inst.env, f, block.outros))
    /\ UNCHANGED <<block, pc, steps, last, unionArgs, artifact, elements, kid>>

CallIntro == Call("intro")

CallOutro == Call("outro")

ParticipantDone ==
    /\ pc = "live"
    /\ \E i \in 1..Len(calls) : \E p \in calls[i].pending :
          calls' = [calls EXCEPT ![i] = participantDone(@, p)]
    /\ UNCHANGED <<block, pc, steps, last, unionArgs, artifact, inst, elements, kid>>

NextRun ==
    \/ Render
    \/ Instantiate
    \/ CallIntro
    \/ CallOutro
    \/ ParticipantDone

SpecRun == InitRun /\ [][NextRun]_vars

(***************************************************************************)
(* Properties of the rendered transitions (SpecRun)                        *)
(***************************************************************************)
GuardedIntro == block.hasIntroMethod /\ ~isEmpty(block.builders.intro)

GuardedOutro == block.hasOutroMethod /\ ~isEmpty(block.builders.outro)

\* the variable the emitted intro sets to true
IntroFlag ==
    LET body == GetProperty(artifact[1], "intro").body
    IN  body[CHOOSE i \in 1..Len(body) :
                 Len(body[i]) = 3 /\ body[i][2] = "=" /\ body[i][3] = "true"][1]

Ops(i) == <<calls[i].op, calls[i + 1].op, calls[i + 2].op>>

Decrements(i) == block.outros - Cardinality(calls[i].pending)

(* C1: in the artifact of a Block with hasOutroMethod, outro count N and a  *)
(* non-empty outro accumulator, an outro invocation that passes the guard   *)
(* initialises its counter to N (so the counter is N minus the decrements   *)
(* made so far), its callback is invoked at most once, and it has been      *)
(* invoked exactly when all N participants have decremented -- for every N  *)
(* from 0 to MaxOutros.                                                     *)
C1_OutroCallbackExactlyOnce ==
    (pc = "live" /\ GuardedOutro) =>
        \A i \in 1..Len(calls) :
            (calls[i].op = "outro" /\ ~calls[i].atGuard) =>
                /\ calls[i].counter = block.outros - Decrements(i)
                /\ calls[i].cbs <= 1
                /\ (calls[i].cbs = 1) <=> (Decrements(i) = block.outros)

(* C2: with hasIntroMethod and a non-empty intro accumulator, of two        *)
(* consecutive intro invocations starting with the introing flag clear the  *)
(* first passes the guard, sets the flag and runs every intro fragment, and *)
(* the second returns at the guard without running any.                     *)
C2_IntroTwiceRunsBodyOnce ==
    (pc = "live" /\ GuardedIntro) =>
        \A i \in 1..(Len(calls) - 1) :
            (/\ calls[i].op = "intro"
             /\ calls[i + 1].op = "intro"
             /\ ~calls[i].before[IntroFlag]) =>
                /\ ~calls[i].atGuard
                /\ calls[i].frags = Len(block.builders.intro)
                /\ calls[i + 1].before[IntroFlag]
                /\ calls[i + 1].atGuard
                /\ calls[i + 1].frags = 0

C2_Witness ==
    /\ pc = "live" /\ GuardedIntro
    /\ Len(calls) >= 2
    /\ calls[1].op = "intro" /\ calls[2].op = "intro"
    /\ calls[1].frags = 1 /\ calls[2].atGuard

Superseded(i) ==
    \E j, k \in 1..Len(calls) :
        /\ i < j /\ j < k
        /\ calls[i].op = "outro" /\ ~calls[i].atGuard
        /\ calls[j].op = "intro" /\ ~calls[j].atGuard
        /\ calls[k].op = "outro" /\ ~calls[k].atGuard

(* C3: after outro, intro, outro (each passing its guard) a decrement by a  *)
(* participant of the first, superseded outro invocation changes no other   *)
(* invocation's counter and fires no completion callback.                   *)
C3_SupersededParticipantsAreNoOps ==
    [][\A i \in 1..Len(calls) :
          (/\ GuardedOutro
           /\ Superseded(i)
           /\ Len(calls') = Len(calls)
           /\ calls'[i].pending # calls[i].pending) =>
              /\ \A k \in 1..Len(calls) : k # i => calls'[k] = calls[k]
              /\ \A k \in 1..Len(calls) : calls'[k].cbs = calls[k].cbs]_vars

(* C4 as claimed: with hasIntroMethod and hasOutroMethod, a non-empty intro *)
(* accumulator makes the third call of intro, outro, intro run the intro    *)
(* fragments, and a non-empty outro accumulator makes the third call of     *)
(* outro, intro, outro run the outro fragments.                             *)
C4_ReversalNeverBlocked ==
    (pc = "live" /\ block.hasIntroMethod /\ block.hasOutroMethod) =>
        \A i \in 1..(Len(calls) - 2) :
            /\ (~isEmpty(block.builders.intro) /\ Ops(i) = <<"intro", "outro", "intro">>)
                   => calls[i + 2].frags > 0
            /\ (~isEmpty(block.builders.outro) /\ Ops(i) = <<"outro", "intro", "outro">>)
                   => calls[i + 2].frags > 0

(* C4 amended: with hasIntroMethod and hasOutroMethod and both the intro    *)
(* and the outro accumulator non-empty, the third call of intro, outro,     *)
(* intro runs the intro fragments and the third call of outro, intro, outro *)
(* runs the outro fragments.                                                *)
C4_ReversalRunsWhenBothHaveFragments ==
    (/\ pc = "live" /\ block.hasIntroMethod /\ block.hasOutroMethod
     /\ ~isEmpty(block.builders.intro) /\ ~isEmpty(block.builders.outro)) =>
        \A i \in 1..(Len(calls) - 2) :
            (Ops(i) = <<"intro", "outro", "intro">> \/ Ops(i) = <<"outro", "intro", "outro">>)
                => /\ ~calls[i + 2].atGuard
                   /\ calls[i + 2].frags = 1

C4_Witness ==
    /\ pc = "live" /\ block.hasIntroMethod /\ block.hasOutroMethod
    /\ ~isEmpty(block.builders.intro) /\ ~isEmpty(block.builders.outro)
    /\ Len(calls) >= 3
    /\ Ops(1) = <<"outro", "intro", "outro">>
    /\ calls[1].frags = 1 /\ calls[2].frags = 1 /\ calls[3].frags = 1

(***************************************************************************)
(* Properties of the operations on a Block (Spec, SpecTeardown)            *)
(***************************************************************************)
IsDeclarationConflict(e) ==
    Len(e) = 3 /\ e[1] = "Variable" /\ e[3] = "already initialised with a different value"

Registered(variables, n) == \E i \in 1..Len(variables) : variables[i][1] = n

RegisteredInit(variables, n) ==
    variables[CHOOSE i \in 1..Len(variables) : variables[i][1] = n][2]

(* C5: addVariable(n, x) for a name already registered with the same        *)
(* initializer (or none both times) does not fail, and for a name           *)
(* registered with a different initializer (none against some included)     *)
(* fails with the declaration-conflict error.                               *)
C5_AddVariableConflict ==
    last.op = "addVariable" =>
        LET n == last.args[1]
            x == last.args[2]
            reg == last.prev.variables
        IN  Registered(reg, n) =>
                /\ RegisteredInit(reg, n) = x => last.error = NoError
                /\ RegisteredInit(reg, n) # x => IsDeclarationConflict(last.error)

C5_Witness ==
    /\ last.op = "addVariable"
    /\ Registered(last.prev.variables, last.args[1])
    /\ RegisteredInit(last.prev.variables, last.args[1]) = Undefined
    /\ last.args[2] = "1"
    /\ IsDeclarationConflict(last.error)

(* C6: after any interleaving of writes to detachRaw and unmount (the       *)
(* detach lines of addElement included) the rendered unmount body is every  *)
(* detachRaw fragment, in order, followed by every unmount fragment, in     *)
(* order.                                                                   *)
C6_DetachRawBeforeUnmount ==
    pc = "rendered" =>
        LET d == last.prev.builders.detachRaw
            u == last.prev.builders.unmount
            body == GetProperty(artifact[1], "unmount").body
        IN  /\ Len(body) = Len(d) + Len(u)
            /\ \A i \in 1..Len(d) : body[i] = d[i]
            /\ \A i \in 1..Len(u) : body[Len(d) + i] = u[i]

C6_Witness ==
    /\ pc = "rendered"
    /\ Len(last.prev.builders.detachRaw) = 2
    /\ Len(last.prev.builders.unmount) = 2
    /\ last.prev.builders.unmount[1] = Fragment(0)
    /\ last.prev.builders.unmount[2][1] = "detachNode"
    /\ GetProperty(artifact[1], "unmount").body[1] = Fragment(1)

(* C7: addElement at top level appends a named declaration to create, an    *)
(* insert line to mount and a detach line to unmount whatever               *)
(* needsIdentifier is; with a parent and no identifier it appends only an   *)
(* inline append line to create; with a parent and an identifier it appends *)
(* the declaration and an append line to create and nothing elsewhere.      *)
C7_AddElementEmission ==
    last.op = "addElement" =>
        LET name == last.args[1]
            expr == last.args[2]
            parent == last.args[3]
            needs == last.args[4] = "true"
            p == last.prev.builders
            q == block.builders
            decl == <<"var", name, "=", expr>>
        IN  /\ parent = Null =>
                  /\ q.create = p.create \o <<decl>>
                  /\ q.mount = p.mount \o <<<<"insertNode", name, block.target, "anchor">>>>
                  /\ q.unmount = p.unmount \o <<<<"detachNode", name>>>>
            /\ (parent # Null /\ ~needs) =>
                  /\ q.create = p.create \o <<<<"appendNode", expr, parent>>>>
                  /\ q.mount = p.mount
                  /\ q.unmount = p.unmount
            /\ (parent # Null /\ needs) =>
                  /\ q.create = p.create \o <<decl, <<"appendNode", name, parent>>>>
                  /\ q.mount = p.mount
                  /\ q.unmount = p.unmount
            /\ \A ph \in PhaseNames \ {"create", "mount", "unmount"} : q[ph] = p[ph]

C7_Witness ==
    /\ last.op = "addElement"
    /\ last.args[3] = Null
    /\ last.args[4] = "false"
    /\ Len(block.builders.unmount) = 1
    /\ Len(block.builders.mount) = 1

(* C10: the dependency set equals the union of every argument passed to     *)
(* addDependencies, and no operation on the Block removes a dependency.     *)
C10_DependenciesAreUnion ==
    /\ block.dependencies = unionArgs
    /\ last.prev.dependencies \subseteq block.dependencies

C10_Witness ==
    /\ last.op = "addDependencies"
    /\ last.args = <<"a", "a">>
    /\ last.prev.dependencies = {"b"}
    /\ block.dependencies = {"a", "b"}

(***************************************************************************)
(* Properties of render (SpecRender)                                       *)
(***************************************************************************)
PropertyNames(a) == [i \in 1..Len(a.properties) |-> a.properties[i].name]

ExpectedNames(b) ==
    (IF b.key \notin {Null, Undefined} THEN <<"key">> ELSE <<>>)
    \o (IF b.first \notin {Null, Undefined} THEN <<"first">> ELSE <<>>)
    \o <<"mount">>
    \o (IF b.hasUpdateMethod THEN <<"update">> ELSE <<>>)
    \o (IF b.hasIntroMethod THEN <<"intro">> ELSE <<>>)
    \o (IF b.hasOutroMethod THEN <<"outro">> ELSE <<>>)
    \o <<"unmount", "destroy">>

(* C8: the rendered object has the properties key, first, mount, update,    *)
(* intro, outro, unmount, destroy in that order, each at most once: mount,  *)
(* unmount, destroy always, update iff hasUpdateMethod, intro iff           *)
(* hasIntroMethod, outro iff hasOutroMethod, key iff a key is set, first    *)
(* iff a first node is set, whatever the accumulators hold.                 *)
C8_PropertySet ==
    pc = "rendered" => PropertyNames(artifact[1]) = ExpectedNames(last.prev)

C8_Witness ==
    /\ pc = "rendered"
    /\ ~last.prev.hasUpdateMethod /\ ~isEmpty(last.prev.builders.update)
    /\ ~last.prev.hasIntroMethod /\ ~isEmpty(last.prev.builders.intro)
    /\ ~last.prev.hasOutroMethod
    /\ PropertyNames(artifact[1]) = <<"mount", "unmount", "destroy">>

(* C9: mount, unmount, destroy and (when present) update are the no-op      *)
(* helper iff their accumulator is empty when emitted, and otherwise a      *)
(* function whose body is the accumulator's fragments in order; for unmount *)
(* the accumulator is detachRaw followed by unmount.                        *)
C9_NoopIffEmpty ==
    pc = "rendered" =>
        \A name \in {"mount", "update", "unmount", "destroy"} :
            HasProperty(artifact[1], name) =>
                LET acc == IF name = "unmount"
                           THEN last.prev.builders.detachRaw \o last.prev.builders.unmount
                           ELSE last.prev.builders[name]
                    prop == GetProperty(artifact[1], name)
                IN  /\ prop.kind = "noop" <=> Len(acc) = 0
                    /\ prop.kind # "noop" => (prop.kind = "function" /\ prop.body = acc)

C9_Witness ==
    /\ pc = "rendered"
    /\ isEmpty(last.prev.builders.unmount)
    /\ Len(last.prev.builders.detachRaw) = 2
    /\ GetProperty(artifact[1], "unmount").kind = "function"
    /\ GetProperty(artifact[1], "mount").kind = "noop"


(***************************************************************************)
(* C11: alias(role) is memoized per Block.  The first call for a role      *)
(* allocates a name through the Block's allocator (a name the allocator    *)
(* had not handed out, recorded as used afterwards); every later call for  *)
(* that role returns the identical name and leaves the allocator and the   *)
(* alias map as they were; two different roles never hold the same name.   *)
(***************************************************************************)
AliasedRoles(b) == {b.aliases[i][1] : i \in 1..Len(b.aliases)}

C11_AliasMemoized ==
    /\ last.op = "alias" =>
         LET role == last.args[1]
             name == last.args[2]
         IN  IF role \in AliasedRoles(last.prev)
             THEN /\ name = MapGet(last.prev.aliases, role)
                  /\ block.usedNames = last.prev.usedNames
                  /\ block.aliases = last.prev.aliases
             ELSE /\ name \notin last.prev.usedNames
                  /\ block.usedNames = last.prev.usedNames \cup {name}
                  /\ block.aliases = Append(last.prev.aliases, <<role, name>>)
    /\ \A i, j \in 1..Len(block.aliases) :
         i # j => /\ block.aliases[i][1] # block.aliases[j][1]
                  /\ block.aliases[i][2] # block.aliases[j][2]

\* a repeated call for a role, made when two roles are registered
C11_Witness ==
    /\ last.op = "alias"
    /\ last.args[1] \in AliasedRoles(last.prev)
    /\ Len(block.aliases) = 2


(***************************************************************************)
(* A Block on which the compiler declares variables, adds elements and     *)
(* transition fragments, and which it then renders.                        *)
(***************************************************************************)
MaxDeclarations == 3

NextDeclare ==
    \/ AddVariable(MaxDeclarations)
    \/ AddElement(MaxDeclarations)
    \/ Write({"intro", "outro"}, MaxDeclarations)
    \/ Render

SpecDeclare == Init /\ [][NextDeclare]_vars

(***************************************************************************)
(* Reading a combined declaration back: the tokens after 'var' are split   *)
(* at the commas, an entry of one token is a bare name and an entry        *)
(* 'name = init' is a name with its initializer.                           *)
(***************************************************************************)
RECURSIVE SplitEntries(_, _, _)
SplitEntries(tokens, i, current) ==
    IF i > Len(tokens) THEN <<current>>
    ELSE IF tokens[i] = "," THEN <<current>> \o SplitEntries(tokens, i + 1, <<>>)
    ELSE SplitEntries(tokens, i + 1, Append(current, tokens[i]))

ParseDeclaration(st) ==
    LET entries == SplitEntries(Tail(st), 1, <<>>)
    IN  [i \in 1..Len(entries) |->
            IF Len(entries[i]) = 3 /\ entries[i][2] = "="
            THEN <<entries[i][1], entries[i][3]>>
            ELSE <<entries[i][1], Undefined>>]

IsPrefix(s, t) == Len(s) <= Len(t) /\ SubSeq(t, 1, Len(s)) = s

(***************************************************************************)
(* C12: a successful addVariable appends the pair (name, initializer) to   *)
(* the registered pairs when the name is new and leaves the pairs, their   *)
(* order included, as they were when the name is already registered; and   *)
(* after render the create phase starts with one combined declaration      *)
(* whose entries are exactly the pairs registered through addVariable in   *)
(* first-registration order (the callers' pairs first, then the guard      *)
(* variables render itself registers through addVariable, one per          *)
(* non-empty transition accumulator), each entry bare when it has no       *)
(* initializer and 'name = initializer' otherwise, followed by the create  *)
(* fragments as they were; when no variable is registered nothing is put   *)
(* in front of the create fragments.                                       *)
(***************************************************************************)
C12_CombinedDeclaration ==
    /\ (last.op = "addVariable" /\ last.error = NoError) =>
         block.variables =
             IF Registered(last.prev.variables, last.args[1])
             THEN last.prev.variables
             ELSE Append(last.prev.variables, <<last.args[1], last.args[2]>>)
    /\ pc = "rendered" =>
         LET before == last.prev
             registered == block.variables
             create == block.builders.create
             guards == (IF isEmpty(before.builders.intro) THEN 0 ELSE 1)
                       + (IF isEmpty(before.builders.outro) THEN 0 ELSE 1)
         IN  /\ IsPrefix(before.variables, registered)
             /\ Len(registered) = Len(before.variables) + guards
             /\ \A i \in (Len(before.variables) + 1)..Len(registered) :
                    registered[i][2] = Undefined
             /\ IF Len(registered) = 0
                THEN IsPrefix(before.builders.create, create)
                ELSE /\ create[1][1] = "var"
                     /\ ParseDeclaration(create[1]) = registered
                     /\ LET entries == SplitEntries(Tail(create[1]), 1, <<>>)
                        IN  \A i \in 1..Len(entries) :
                               (Len(entries[i]) = 1) <=> (registered[i][2] = Undefined)
                     /\ IsPrefix(before.builders.create, Tail(create))

\* render of a block with a bare variable, a variable with an initializer
\* and a guard variable of render's own
C12_Witness ==
    /\ pc = "rendered"
    /\ last.prev.variables = << <<"a", Undefined>>, <<"b", "1">> >>
    /\ Len(block.variables) = 3
    /\ block.builders.create[1][1] = "var"


(***************************************************************************)
(* A Block and the Block returned by its child(): the compiler operates   *)
(* on the parent before and after child() and on the child once it       *)
(* exists.  A field whose object the two share is written through to the   *)
(* other Block.                                                            *)
(***************************************************************************)
MaxFamilyOps == 3

Overrides == {[name |-> "create_each_block"],
              [name |-> "create_if_block", key |-> "key"]}

FamilyOps ==
    {<<"addDependencies", n>> : n \in Names}
    \cup {<<"addVariable", "a", x>> : x \in {Undefined, "1"}}
    \cup {<<"alias", "outros">>, <<"addElement", "a", Null>>, <<"render">>}
    \cup {<<"write", phase>> : phase \in {"intro", "detachRaw"}}
    \cup {<<"set", field>> : field \in {"hasIntroMethod", "hasOutroMethod",
                                         "hasUpdateMethod", "outros", "first"}}

apply(b, op) ==
    CASE op[1] = "addDependencies" -> addDependencies(b, <<op[2]>>)
      [] op[1] = "addVariable" -> addVariable(b, op[2], op[3]).b
      [] op[1] = "alias" -> alias(b, op[2]).b
      [] op[1] = "addElement" -> addElement(b, op[2], "el", op[3], TRUE)
      [] op[1] = "write" -> write(b, op[2], Fragment(1))
      [] op[1] = "set" -> setField(b, op[2])
      [] op[1] = "render" -> render(b).b

writeThrough(other, target, shares) ==
    [f \in DOMAIN other |-> IF f \in shares THEN target[f] ELSE other[f]]

Child ==
    /\ pc = "build" /\ kid = <<>>
    /\ \E options \in Overrides :
          /\ kid' = <<child(block, options)>>
          /\ last' = [op |-> "child", args |-> <<options.name>>, prev |-> block,
                      error |-> NoError]
    /\ UNCHANGED <<block, pc, steps, unionArgs, artifact, inst, calls, elements>>

OnParent ==
    /\ pc = "build" /\ steps < MaxFamilyOps
    /\ \E op \in FamilyOps :
          LET b == apply(block, op)
          IN  /\ block' = b
              /\ kid' = IF kid = <<>> THEN kid
                        ELSE <<[kid[1] EXCEPT !.b = writeThrough(@, b, kid[1].shares)]>>
              /\ last' = [op |-> "onParent", args |-> op,
                          prev |-> IF kid = <<>> THEN block ELSE kid[1].b,
                          error |-> NoError]
    /\ steps' = steps + 1
    /\ UNCHANGED <<pc, unionArgs, artifact, inst, calls, elements>>

OnChild ==
    /\ pc = "build" /\ kid # <<>> /\ steps < MaxFamilyOps
    /\ \E op \in FamilyOps :
          LET b == apply(kid[1].b, op)
          IN  /\ kid' = <<[kid[1] EXCEPT !.b = b]>>
              /\ block' = writeThrough(block, b, kid[1].shares)
              /\ last' = [op |-> "onChild", args |-> op, prev |-> block,
                          error |-> NoError]
    /\ steps' = steps + 1
    /\ UNCHANGED <<pc, unionArgs, artifact, inst, calls, elements>>

NextChild == Child \/ OnParent \/ OnChild

SpecChild == Init /\ [][NextChild]_vars

(***************************************************************************)
(* C13: child(overrides) returns an independent Block.  Whatever the state *)
(* of the parent, the child starts with eight empty accumulators, an empty *)
(* dependency set, no declared variable, no alias, first unset, outros 0   *)
(* and the three method flags false, and child() leaves the parent as it   *)
(* was; afterwards no operation on the child changes an accumulator, the   *)
(* dependency set, the variables, the aliases or a flag of the parent, and *)
(* no operation on the parent changes any of these on the child.           *)
(***************************************************************************)
Owned(b) ==
    <<b.builders, b.dependencies, b.variables, b.aliases,
      b.hasUpdateMethod, b.hasIntroMethod, b.hasOutroMethod>>

C13_ChildIndependent ==
    /\ last.op = "child" =>
         /\ \A phase \in PhaseNames : isEmpty(kid[1].b.builders[phase])
         /\ kid[1].b.dependencies = {}
         /\ kid[1].b.variables = <<>>
         /\ kid[1].b.aliases = <<>>
         /\ kid[1].b.first = Null
         /\ kid[1].b.outros = 0
         /\ ~kid[1].b.hasUpdateMethod
         /\ ~kid[1].b.hasIntroMethod
         /\ ~kid[1].b.hasOutroMethod
         /\ block = last.prev
    /\ last.op = "onChild" => Owned(block) = Owned(last.prev)
    /\ (last.op = "onParent" /\ kid # <<>>) => Owned(kid[1].b) = Owned(last.prev)

\* the child of a parent that has dependencies, variables and fragments
\* takes a dependency of its own
C13_Witness ==
    /\ last.op = "onChild"
    /\ last.args = <<"addDependencies", "b">>
    /\ block.dependencies = {"a"}
    /\ kid[1].b.dependencies = {"b"}


(***************************************************************************)
(* C14: when addVariable fails with the declaration-conflict error, the    *)
(* error carries the name of the variable, the initializer it is           *)
(* registered with and the initializer of the failing call.                *)
(***************************************************************************)
Carries(e, v) == \E i \in 1..Len(e) : e[i] = v

C14_ConflictCarriesInitializers ==
    (last.op = "addVariable" /\ last.error # NoError) =>
        /\ Carries(last.error, last.args[1])
        /\ Carries(last.error, RegisteredInit(last.prev.variables, last.args[1]))
        /\ Carries(last.error, last.args[2])


(***************************************************************************)
(* Properties of the transition flags at run time (SpecRun)                *)
(***************************************************************************)
\* the variable the emitted outro sets to true
OutroFlag ==
    LET body == GetProperty(artifact[1], "outro").body
    IN  body[CHOOSE i \in 1..Len(body) :
                 Len(body[i]) = 3 /\ body[i][2] = "=" /\ body[i][3] = "true"][1]

\* the flags as invocation i leaves them
After(i) == IF i < Len(calls) THEN calls[i + 1].before ELSE inst.env

(***************************************************************************)
(* C15: in the artifact of a Block with hasIntroMethod and hasOutroMethod  *)
(* and non-empty intro and outro accumulators, the introing and outroing   *)
(* flags are never both set: an intro invocation that passes its guard     *)
(* leaves introing set and outroing clear, and an outro invocation that    *)
(* passes its guard leaves outroing set and introing clear.                *)
(***************************************************************************)
C15_FlagsMutuallyExclusive ==
    (pc = "live" /\ GuardedIntro /\ GuardedOutro) =>
        /\ ~(inst.env[IntroFlag] /\ inst.env[OutroFlag])
        /\ \A i \in 1..Len(calls) :
              /\ ~(calls[i].before[IntroFlag] /\ calls[i].before[OutroFlag])
              /\ (calls[i].op = "intro" /\ ~calls[i].atGuard) =>
                     After(i)[IntroFlag] /\ ~After(i)[OutroFlag]
              /\ (calls[i].op = "outro" /\ ~calls[i].atGuard) =>
                     After(i)[OutroFlag] /\ ~After(i)[IntroFlag]

\* an intro that passed its guard, then an outro that passed its guard
C15_Witness ==
    /\ pc = "live" /\ GuardedIntro /\ GuardedOutro
    /\ Len(calls) = 2
    /\ calls[1].op = "intro" /\ ~calls[1].atGuard
    /\ calls[2].op = "outro" /\ ~calls[2].atGuard
    /\ inst.env[OutroFlag] /\ ~inst.env[IntroFlag]

(***************************************************************************)
(* C16: in the artifact of a Block with hasOutroMethod and a non-empty     *)
(* outro accumulator, an outro invocation made while the outroing flag is  *)
(* set returns at the guard: it runs no outro fragment, initialises no     *)
(* counter, starts no participant and its callback is never invoked; so    *)
(* between two outro invocations that pass the guard there is an intro     *)
(* invocation that passed its guard and cleared the flag.                  *)
(***************************************************************************)
C16_OutroGuardBlocksReentry ==
    (pc = "live" /\ GuardedOutro) =>
        /\ \A i \in 1..Len(calls) :
              (calls[i].op = "outro" /\ calls[i].before[OutroFlag]) =>
                  /\ calls[i].atGuard
                  /\ calls[i].frags = 0
                  /\ calls[i].counter = Frame(inst.env).counter
                  /\ calls[i].pending = {}
                  /\ calls[i].cbs = 0
        /\ \A i, k \in 1..Len(calls) :
              (/\ i < k
               /\ calls[i].op = "outro" /\ ~calls[i].atGuard
               /\ calls[k].op = "outro" /\ ~calls[k].atGuard) =>
                  \E j \in (i + 1)..(k - 1) :
                      calls[j].op = "intro" /\ ~calls[j].atGuard

\* an outro that ran its fragments, then an outro made while it is pending
C16_Witness ==
    /\ pc = "live" /\ GuardedOutro
    /\ Len(calls) >= 2
    /\ calls[1].op = "outro" /\ calls[1].frags = 1 /\ calls[1].pending # {}
    /\ calls[2].op = "outro" /\ calls[2].before[OutroFlag] /\ calls[2].atGuard


(***************************************************************************)
(* A Block on which the compiler registers elements and variables and      *)
(* which it then renders: nothing but addElement writes to the mount and   *)
(* unmount accumulators.                                                   *)
(***************************************************************************)
MaxElements == 3

NextElements ==
    \/ AddElement(MaxElements)
    \/ AddVariable(MaxElements)
    \/ Render

SpecElements == Init /\ [][NextElements]_vars

(***************************************************************************)
(* C17: after any sequence of addElement calls, with no other write to     *)
(* mount or unmount, the mount accumulator holds exactly one insert line   *)
(* and the unmount accumulator exactly one detach line for each element    *)
(* added without a parent, with the same names in the order of the calls,  *)
(* and neither holds a line for an element added with a parent.            *)
(***************************************************************************)
C17_ToplevelMountAndDetach ==
    /\ block.builders.mount =
           [i \in 1..Len(elements) |-> <<"insertNode", elements[i], block.target, "anchor">>]
    /\ block.builders.unmount =
           [i \in 1..Len(elements) |-> <<"detachNode", elements[i]>>]

\* two top-level elements, then an element with a parent and an identifier
C17_Witness ==
    /\ elements = <<"a", "b">>
    /\ last.op = "addElement"
    /\ last.args = <<"b", "el", "p", "true">>
    /\ Len(block.builders.mount) = 2
    /\ Len(block.builders.unmount) = 2


(***************************************************************************)
(* C18: an addVariable call that fails leaves the Block as it was: the     *)
(* variable keeps its initializer and its position, no other field         *)
(* changes, and a render made afterwards emits the variable at that        *)
(* position with the initializer it was registered with.                   *)
(***************************************************************************)
C18_FailedAddVariableChangesNothing ==
    (last.op = "addVariable" /\ last.error # NoError) =>
        /\ block = last.prev
        /\ LET n == last.args[1]
               pos == CHOOSE i \in 1..Len(last.prev.variables) :
                          last.prev.variables[i][1] = n
               r == render(block)
           IN  /\ r.error = NoError
               /\ ParseDeclaration(r.b.builders.create[1])[pos]
                      = <<n, RegisteredInit(last.prev.variables, n)>>

\* the first of two registered variables is declared again with another
\* initializer
C18_Witness ==
    /\ last.op = "addVariable" /\ last.error # NoError
    /\ Len(last.prev.variables) = 2
    /\ last.args[1] = last.prev.variables[1][1]
    /\ last.prev.variables[1][2] # Undefined


(***************************************************************************)
(* C19: render changes only the create accumulator, the unmount            *)
(* accumulator, the declared variables and the aliases of the Block (and   *)
(* the names its allocator has handed out).  It leaves the dependency set, *)
(* the mount, intro, update, outro, destroy and detachRaw accumulators and *)
(* key, first, outros, hasUpdateMethod, hasIntroMethod and hasOutroMethod  *)
(* as they were, and every other field with them.                          *)
(***************************************************************************)
C19_RenderFrame ==
    last.op = "render" =>
        /\ block.dependencies = last.prev.dependencies
        /\ \A phase \in PhaseNames \ {"create", "unmount"} :
               block.builders[phase] = last.prev.builders[phase]
        /\ block.key = last.prev.key
        /\ block.first = last.prev.first
        /\ block.outros = last.prev.outros
        /\ block.hasUpdateMethod = last.prev.hasUpdateMethod
        /\ block.hasIntroMethod = last.prev.hasIntroMethod
        /\ block.hasOutroMethod = last.prev.hasOutroMethod
        /\ [block EXCEPT !.builders.create = last.prev.builders.create,
                         !.builders.unmount = last.prev.builders.unmount,
                         !.variables = last.prev.variables,
                         !.aliases = last.prev.aliases,
                         !.usedNames = last.prev.usedNames] = last.prev

\* a render that changes create, unmount, the variables and the aliases
C19_Witness ==
    /\ pc = "rendered"
    /\ block.builders.create # last.prev.builders.create
    /\ block.builders.unmount # last.prev.builders.unmount
    /\ block.variables # last.prev.variables
    /\ block.aliases # last.prev.aliases
    /\ ~isEmpty(block.builders.detachRaw)
    /\ block.hasUpdateMethod /\ block.first # Null

====
